---- MODULE Spec2Model ----
(***************************************************************************)
(* pprof: an in-process scope profiler.  A Block is created by the block!  *)
(* macro (anchor lookup, optional add_bytes, timer read) and finalized by  *)
(* its Drop (Profiler::add_block).  Anchor ids are the 0-based indices of  *)
(* the Rust Vec; anchors[id + 1] is the anchor with id `id`.               *)
(***************************************************************************)
EXTENDS Integers, Sequences, FiniteSets, TLC

\* ---- bounds of the model ----
MaxTime == 2        \* the clock stops ticking here
MaxDepth == 3       \* most scopes open at once
MaxCalls == 3       \* most scopes created in one run
MaxBytes == 1       \* largest byte count passed to block!(name, bytes)
MaxAdds == 2        \* most calls of Profiler::add_bytes in one run
MaxThreadCalls == 2 \* most scopes created by all threads of one run

Names == {"f", "g"}
NONE == -1          \* Option::None of Iterator::position

VARIABLES
    anchors,          \* Profiler.anchors : Vec<Anchor>
    anchor_id_stack,  \* Profiler.anchor_id_stack : Vec<usize>
    start,            \* Profiler.start : Instant
    now,              \* the timer source (Instant::now / rdtsc)
    blocks,           \* the live Block values of the thread, outermost first
    poisoned,         \* the PROFILER mutex is poisoned (a holder panicked)
    overflow_checks,  \* the build panics on integer overflow (debug profile)
    report,           \* what the operation performed last wrote to stdout
    op,               \* the profiler operation performed last
    report_before,    \* history: what the print directly before the last
                      \* operation wrote, when that operation is a print too
    hist,             \* history: per anchor id, what its finalized scopes did
    covered,          \* history: summed spans of the finalized top-level scopes
    created,          \* history: number of scopes created
    ref,              \* the attribution algorithm of the design (single
                      \* active-scope id and snapshot), run side by side
    lock,             \* the thread that holds the PROFILER MutexGuard, or 0
    threads           \* per thread: where it is and its live Blocks

vars == <<anchors, anchor_id_stack, start, now, blocks, poisoned,
          overflow_checks, report, op, report_before, hist, covered, created,
          ref, lock, threads>>

\* ---- Anchor ----
Anchor_new(name) ==
    [name |-> name, calls |-> 0, elapsed |-> 0, children_elapsed |-> 0,
     self_children_elapsed |-> 0, bytes |-> 0]

\* update that forgets to count the call
update_nocount(a, duration) ==
    [a EXCEPT !.elapsed = @ + duration]

update(a, duration) ==
    [a EXCEPT !.elapsed = @ + duration, !.calls = @ + 1]

\* update_from_child that adds to the wrong counter
update_from_child_wrongfield(a, duration) ==
    [a EXCEPT !.self_children_elapsed = @ + duration]

update_from_child(a, duration) ==
    [a EXCEPT !.children_elapsed = @ + duration]

update_from_self_child(a, duration) ==
    [a EXCEPT !.self_children_elapsed = @ + duration]

\* ---- Block ----
Block_new(anchor_id, name) ==
    [anchor_id |-> anchor_id, start |-> now, name |-> name]

Block_elapsed(block) == now - block.start

\* ---- unsigned 64-bit subtraction ----
\* The difference a - b of two u64 values.  When a < b the subtraction
\* borrows: with overflow checks the build panics, without them the result
\* wraps to 2^64 - mag, which is kept as borrow = TRUE and its distance mag
\* from 2^64 (all magnitudes here are far below 2^63).
U64Sub(a, b) ==
    IF a >= b THEN [borrow |-> FALSE, mag |-> a - b]
              ELSE [borrow |-> TRUE, mag |-> b - a]

\* x <= y for two results of U64Sub
U64Leq(x, y) ==
    IF x.borrow = y.borrow
    THEN (IF x.borrow THEN x.mag >= y.mag ELSE x.mag <= y.mag)
    ELSE y.borrow

\* ---- Profiler ----
position(anch, name) ==
    IF \E i \in 1..Len(anch) : anch[i].name = name
    THEN (CHOOSE i \in 1..Len(anch) :
            /\ anch[i].name = name
            /\ \A j \in 1..(i - 1) : anch[j].name # name) - 1
    ELSE NONE

\* get_anchor_id that registers a new anchor without looking the name up
get_anchor_id_nolookup(anch, stack, name) ==
    LET anch1 == Append(anch, Anchor_new(name))
        i == Len(anch1) - 1
    IN [anchors |-> anch1, stack |-> Append(stack, i), id |-> i]

\* get_anchor_id that pushes the id only when it registers a new anchor
get_anchor_id_pushnew(anch, stack, name) ==
    LET p == position(anch, name)
        anch1 == IF p # NONE THEN anch ELSE Append(anch, Anchor_new(name))
        i == IF p # NONE THEN p ELSE Len(anch1) - 1
    IN [anchors |-> anch1,
        stack |-> IF p # NONE THEN stack ELSE Append(stack, i),
        id |-> i]

\* get_anchor_id: the registry, the stack and the id it returns
get_anchor_id(anch, stack, name) ==
    LET p == position(anch, name)
        anch1 == IF p # NONE THEN anch ELSE Append(anch, Anchor_new(name))
        i == IF p # NONE THEN p ELSE Len(anch1) - 1
    IN [anchors |-> anch1, stack |-> Append(stack, i), id |-> i]

\* a pop that takes the outermost entry instead of the innermost
Vec_pop_front(stack) ==
    IF stack = <<>> THEN stack ELSE SubSeq(stack, 2, Len(stack))

Vec_pop(stack) ==
    IF stack = <<>> THEN stack ELSE SubSeq(stack, 1, Len(stack) - 1)

Contains(s, x) == \E i \in 1..Len(s) : s[i] = x

\* the for loop of add_block without the updated_children test: an anchor
\* that is open twice is charged twice
RECURSIVE add_block_loop_nodedup(_, _, _, _, _, _)
add_block_loop_nodedup(anch, stack, k, updated_children, anchor_id, duration) ==
    IF k > Len(stack) THEN anch
    ELSE LET a == stack[k] IN
         add_block_loop_nodedup(
            [anch EXCEPT ![a + 1] =
                IF a = anchor_id
                THEN update_from_self_child(@, duration)
                ELSE update_from_child(@, duration)],
            stack, k + 1, Append(updated_children, a), anchor_id, duration)

\* the for loop of add_block from stack position k on
RECURSIVE add_block_loop(_, _, _, _, _, _)
add_block_loop(anch, stack, k, updated_children, anchor_id, duration) ==
    IF k > Len(stack) THEN anch
    ELSE LET a == stack[k] IN
         IF ~Contains(updated_children, a)
         THEN add_block_loop(
                [anch EXCEPT ![a + 1] =
                    IF a = anchor_id
                    THEN update_from_self_child(@, duration)
                    ELSE update_from_child(@, duration)],
                stack, k + 1, Append(updated_children, a), anchor_id, duration)
         ELSE add_block_loop(anch, stack, k + 1, updated_children,
                             anchor_id, duration)

\* add_block: the registry and the stack after a block is finalized
add_block(anch, stack, block) ==
    LET stack1 == Vec_pop(stack)
        duration == Block_elapsed(block)
        anch1 == [anch EXCEPT ![block.anchor_id + 1] = update(@, duration)]
    IN [anchors |-> add_block_loop(anch1, stack1, 1, <<>>, block.anchor_id,
                                   duration),
        stack |-> stack1]

\* add_bytes that overwrites the count
add_bytes_set(anch, anchor_id, bytes) ==
    [anch EXCEPT ![anchor_id + 1].bytes = bytes]

add_bytes(anch, anchor_id, bytes) ==
    [anch EXCEPT ![anchor_id + 1].bytes = @ + bytes]

\* ---- print ----
\* the two subtractions of print, in ticks (before the division by freq)
TotalTicks(a) == U64Sub(a.elapsed, a.self_children_elapsed)
SelfTicks(a) == U64Sub(a.elapsed, a.children_elapsed)

Underflows(a) == TotalTicks(a).borrow \/ SelfTicks(a).borrow

\* get_duration_freq of the wall-clock build: timer ticks per second
get_duration_freq == 1000000000

\* the 1_000_000.0 that print divides total_duration.as_nanos() by
NanosPerMilli == 1000000

\* elapsed_percentage: (ticks / freq) / (total_duration / 1_000_000) * 100,
\* kept as the exact quotient of * times / over (the rounding of f64 is
\* left out; over = 0 is the division by zero that f64 answers with inf or
\* NaN)
percentage(ticks, total_duration) ==
    [of |-> ticks, times |-> 100,
     over |-> (get_duration_freq \div NanosPerMilli) * total_duration]

print_line(a, total_duration) ==
    [name |-> a.name, calls |-> a.calls, total |-> TotalTicks(a),
     self |-> SelfTicks(a), bytes |-> a.bytes,
     total_pct |-> percentage(TotalTicks(a), total_duration),
     self_pct |-> percentage(SelfTicks(a), total_duration)]

\* number of anchors print gets through: all of them, or with overflow
\* checks those before the first one whose subtraction borrows
print_reached(anch, checks) ==
    IF checks /\ \E i \in 1..Len(anch) : Underflows(anch[i])
    THEN (CHOOSE i \in 1..Len(anch) :
            /\ Underflows(anch[i])
            /\ \A j \in 1..(i - 1) : ~Underflows(anch[j])) - 1
    ELSE Len(anch)

\* print_lines that skips the anchors without a completed scope
print_lines_called(anch, checks, total_duration) ==
    SelectSeq([i \in 1..print_reached(anch, checks) |->
                  print_line(anch[i], total_duration)],
              LAMBDA l : l.calls > 0)

print_lines(anch, checks, total_duration) ==
    [i \in 1..print_reached(anch, checks) |->
        print_line(anch[i], total_duration)]

print_panics(anch, checks) == print_reached(anch, checks) < Len(anch)

\* ---- threads ----
Threads == {1, 2}

\* A thread is running caller code ("run"), holds the guard for a profiler
\* call ("locked"), stands between the statements of block! ("bytes",
\* "new"), calls lock() under its own guard ("relock"), or has panicked.
Thread_new ==
    [pc |-> "run", name |-> "", id |-> NONE, blocks |-> <<>>, cause |-> ""]

\* ---- the attribution algorithm of the design ----
\* An anchor of the design: exclusive and inclusive time are kept directly.
RefAnchor_new(name) ==
    [name |-> name, calls |-> 0, elapsed_exclusive |-> 0,
     elapsed_inclusive |-> 0]

\* the registry starts with the root anchor (id 0, empty name), which is
\* also the active scope
Ref_new ==
    [anchors |-> <<RefAnchor_new("")>>, active_scope_id |-> 0,
     scopes |-> <<>>]

\* get_or_create_id: the registry and the id of name
Ref_get_or_create_id(anch, name) ==
    LET p == position(anch, name)
        anch1 == IF p # NONE THEN anch ELSE Append(anch, RefAnchor_new(name))
    IN [anchors |-> anch1, id |-> IF p # NONE THEN p ELSE Len(anch1) - 1]

\* scope creation: parent id, snapshot of the inclusive time, new active
\* id, start
Ref_begin(r, name) ==
    LET g == Ref_get_or_create_id(r.anchors, name)
        scope == [anchor_id |-> g.id,
                  parent_id |-> r.active_scope_id,
                  start |-> now,
                  snapshot_inclusive |-> g.anchors[g.id + 1].elapsed_inclusive]
    IN [anchors |-> g.anchors, active_scope_id |-> g.id,
        scopes |-> Append(r.scopes, scope)]

\* scope finalization of the innermost scope, steps 1 to 6
Ref_end(r) ==
    LET scope == r.scopes[Len(r.scopes)]
        elapsed == now - scope.start
        a1 == [r.anchors EXCEPT ![scope.parent_id + 1].elapsed_exclusive =
                    @ - elapsed]
        a2 == [a1 EXCEPT ![scope.anchor_id + 1] =
                    [@ EXCEPT !.elapsed_exclusive = @ + elapsed,
                              !.elapsed_inclusive =
                                  scope.snapshot_inclusive + elapsed,
                              !.calls = @ + 1]]
    IN [anchors |-> a2, active_scope_id |-> scope.parent_id,
        scopes |-> SubSeq(r.scopes, 1, Len(r.scopes) - 1)]

\* an operation that writes nothing
Silent == <<>>

\* ---- history ----
Hist_new ==
    [done |-> 0, span |-> 0, outer |-> 0, kidspan |-> 0, nested |-> FALSE,
     depths |-> {}, bytes_added |-> 0, adds |-> 0]

\* the history after n bytes are added to anchor_id
hist_bytes(h, anchor_id, n) ==
    [h EXCEPT ![anchor_id + 1] =
        [@ EXCEPT !.bytes_added = @ + n, !.adds = @ + 1]]

\* number of add_bytes calls so far
RECURSIVE Adds(_, _)
Adds(h, k) == IF k = 0 THEN 0 ELSE h[k].adds + Adds(h, k - 1)

\* the history extended to n anchors
hist_grow(h, n) == h \o [i \in 1..(n - Len(h)) |-> Hist_new]

\* the history after the innermost block b is finalized with span d
hist_drop(h, open, b, d) ==
    LET rest == SubSeq(open, 1, Len(open) - 1)
        shadowed == \E i \in 1..Len(rest) : rest[i].anchor_id = b.anchor_id
        h1 == [h EXCEPT ![b.anchor_id + 1] =
                 [@ EXCEPT !.done = @ + 1,
                           !.span = @ + d,
                           !.outer = IF shadowed THEN @ ELSE @ + d,
                           !.nested = @ \/ shadowed,
                           !.depths = @ \cup {Len(open)}]]
    IN IF rest = <<>> THEN h1
       ELSE [h1 EXCEPT ![rest[Len(rest)].anchor_id + 1].kidspan = @ + d]

\* an initial state with a root anchor of empty name at id 0
Init_root ==
    /\ anchors = <<Anchor_new("")>>
    /\ anchor_id_stack = <<>>
    /\ start = 0
    /\ now = 0
    /\ blocks = <<>>
    /\ poisoned = FALSE
    /\ overflow_checks \in BOOLEAN
    /\ report = Silent
    /\ report_before = Silent
    /\ op = "new"
    /\ hist = <<Hist_new>>
    /\ covered = 0
    /\ created = 0
    /\ ref = Ref_new
    /\ lock = 0
    /\ threads = [t \in Threads |-> Thread_new]

\* ---- initial state: Profiler::new, nothing instrumented yet ----
Init ==
    /\ anchors = <<>>
    /\ anchor_id_stack = <<>>
    /\ start = 0
    /\ now = 0
    /\ blocks = <<>>
    /\ poisoned = FALSE
    /\ overflow_checks \in BOOLEAN
    /\ report = Silent
    /\ report_before = Silent
    /\ op = "new"
    /\ hist = <<>>
    /\ covered = 0
    /\ created = 0
    /\ ref = Ref_new
    /\ lock = 0
    /\ threads = [t \in Threads |-> Thread_new]

\* ---- operations ----
\* the timer advances while the program runs
Tick ==
    /\ now < MaxTime
    /\ now' = now + 1
    /\ UNCHANGED <<anchors, anchor_id_stack, start, blocks, poisoned,
                   overflow_checks, report, op, report_before, hist,
                   covered, created, ref, lock, threads>>

\* block!() / block!(name): anchor lookup, then Block::new
block(name) ==
    /\ ~poisoned
    /\ Len(blocks) < MaxDepth
    /\ created < MaxCalls
    /\ LET r == get_anchor_id(anchors, anchor_id_stack, name) IN
         /\ anchors' = r.anchors
         /\ anchor_id_stack' = r.stack
         /\ blocks' = Append(blocks, Block_new(r.id, name))
         /\ ref' = Ref_begin(ref, name)
         /\ hist' = hist_grow(hist, Len(r.anchors))
    /\ created' = created + 1
    /\ op' = "block"
    /\ report' = Silent
    /\ report_before' = Silent
    /\ UNCHANGED <<start, now, poisoned, overflow_checks, covered, lock,
                   threads>>

\* block!(name, bytes): anchor lookup, add_bytes, then Block::new
block_bytes(name, bytes) ==
    /\ ~poisoned
    /\ Adds(hist, Len(hist)) < MaxAdds
    /\ Len(blocks) < MaxDepth
    /\ created < MaxCalls
    /\ LET r == get_anchor_id(anchors, anchor_id_stack, name) IN
         /\ anchors' = add_bytes(r.anchors, r.id, bytes)
         /\ anchor_id_stack' = r.stack
         /\ blocks' = Append(blocks, Block_new(r.id, name))
         /\ ref' = Ref_begin(ref, name)
         /\ hist' = hist_bytes(hist_grow(hist, Len(r.anchors)), r.id, bytes)
    /\ created' = created + 1
    /\ op' = "block_bytes"
    /\ report' = Silent
    /\ report_before' = Silent
    /\ UNCHANGED <<start, now, poisoned, overflow_checks, covered, lock,
                   threads>>

\* Drop for Block, innermost scope first: add_block
drop ==
    /\ ~poisoned
    /\ blocks # <<>>
    /\ LET b == blocks[Len(blocks)]
           r == add_block(anchors, anchor_id_stack, b)
           d == Block_elapsed(b)
       IN /\ anchors' = r.anchors
          /\ anchor_id_stack' = r.stack
          /\ hist' = hist_drop(hist, blocks, b, d)
          /\ covered' = IF Len(blocks) = 1 THEN covered + d ELSE covered
          /\ ref' = Ref_end(ref)
    /\ blocks' = SubSeq(blocks, 1, Len(blocks) - 1)
    /\ op' = "drop"
    /\ report' = Silent
    /\ report_before' = Silent
    /\ UNCHANGED <<start, now, poisoned, overflow_checks, created, lock,
                   threads>>

\* PROFILER.lock().unwrap().add_bytes(anchor_id, bytes), called directly;
\* an anchor_id that is no index of anchors panics under the lock
add_bytes_call(anchor_id, bytes) ==
    /\ ~poisoned
    /\ Adds(hist, Len(hist)) < MaxAdds
    /\ IF anchor_id < Len(anchors)
       THEN /\ anchors' = add_bytes(anchors, anchor_id, bytes)
            /\ hist' = hist_bytes(hist, anchor_id, bytes)
            /\ UNCHANGED poisoned
       ELSE /\ poisoned' = TRUE
            /\ UNCHANGED <<anchors, hist>>
    /\ op' = "add_bytes"
    /\ report' = Silent
    /\ report_before' = Silent
    /\ UNCHANGED <<anchor_id_stack, start, now, blocks, overflow_checks,
                   covered, created, ref, lock, threads>>

\* init that also clears the statistics
init_clear ==
    /\ ~poisoned
    /\ start' = now
    /\ anchors' = [i \in 1..Len(anchors) |-> Anchor_new(anchors[i].name)]
    /\ op' = "init"
    /\ report' = Silent
    /\ report_before' = Silent
    /\ UNCHANGED <<anchor_id_stack, now, blocks, poisoned,
                   overflow_checks, hist, covered, created, ref, lock, threads>>

\* pprof::init
init ==
    /\ ~poisoned
    /\ start' = now
    /\ op' = "init"
    /\ report' = Silent
    /\ report_before' = Silent
    /\ UNCHANGED <<anchors, anchor_id_stack, now, blocks, poisoned,
                   overflow_checks, hist, covered, created, ref, lock, threads>>

\* print that resets the counters once they are reported
print_reset ==
    /\ ~poisoned
    /\ report' = [total_duration |-> now - start,
                  lines |-> print_lines(anchors, overflow_checks, now - start)]
    /\ report_before' = IF op = "print" THEN report ELSE Silent
    /\ poisoned' = print_panics(anchors, overflow_checks)
    /\ op' = "print"
    /\ anchors' = [i \in 1..Len(anchors) |-> Anchor_new(anchors[i].name)]
    /\ UNCHANGED <<anchor_id_stack, start, now, blocks,
                   overflow_checks, hist, covered, created, ref, lock, threads>>

\* pprof::print -> Profiler::print
print ==
    /\ ~poisoned
    /\ report' = [total_duration |-> now - start,
                  lines |-> print_lines(anchors, overflow_checks, now - start)]
    /\ report_before' = IF op = "print" THEN report ELSE Silent
    /\ poisoned' = print_panics(anchors, overflow_checks)
    /\ op' = "print"
    /\ UNCHANGED <<anchors, anchor_id_stack, start, now, blocks,
                   overflow_checks, hist, covered, created, ref, lock, threads>>

Next ==
    \/ Tick
    \/ \E name \in Names : block(name)
    \/ \E name \in Names, bytes \in 1..MaxBytes : block_bytes(name, bytes)
    \/ drop
    \/ \E anchor_id \in 0..Len(anchors), bytes \in 1..MaxBytes :
          add_bytes_call(anchor_id, bytes)
    \/ init
    \/ print

Spec == Init /\ [][Next]_vars

TypeOK ==
    /\ now \in 0..MaxTime
    /\ Len(anchors) = Len(hist)
    /\ Len(blocks) = Len(anchor_id_stack)

\* ---- several threads ----
\* Every profiler call is PROFILER.lock().unwrap().call(args): the guard is
\* taken first, then the arguments are evaluated, then the call runs, and
\* the guard is dropped at the end of the statement.  Only the add_bytes
\* statement of block! has an argument that is caller code ($bytes), so only
\* there the thread is seen holding the guard ("locked"); every other call
\* is one step of the thread that finds the mutex free.

Aborted == \E t \in Threads : threads[t].pc = "aborted"

\* A panic unwinds the thread: the guard it holds is dropped (poisoning the
\* mutex), then its live Blocks, whose Drop panics on the poisoned mutex:
\* a panic while panicking aborts the process.  Without live Blocks only
\* the thread ends.  dropping: the panic comes from the Drop of a Block.
Panicked(th, cause, dropping) ==
    [th EXCEPT !.pc = IF Len(th.blocks) > (IF dropping THEN 1 ELSE 0)
                      THEN "aborted" ELSE "panicked",
               !.cause = cause]

\* the operation performed last and what it wrote
Wrote(o, r) ==
    /\ op' = o
    /\ report' = r
    /\ report_before' = IF o = "print" /\ op = "print" THEN report ELSE Silent

\* thread t can call PROFILER.lock(): it runs caller code at pc and the
\* mutex is free
CanLock(t, pc) ==
    /\ ~Aborted
    /\ threads[t].pc = pc
    /\ lock = 0

\* .unwrap() of the lock result on a poisoned mutex: the thread panics and
\* nothing else happens
UnwrapPanics(t, dropping) ==
    /\ threads' = [threads EXCEPT ![t] = Panicked(@, "poisoned", dropping)]
    /\ UNCHANGED <<anchors, anchor_id_stack, start, now, blocks, poisoned,
                   overflow_checks, report, op, report_before, hist, covered,
                   created, ref, lock>>

\* the history after a block of anchor_id is finalized with span d
hist_finalized(h, anchor_id, d) ==
    [h EXCEPT ![anchor_id + 1] =
        [@ EXCEPT !.done = @ + 1, !.span = @ + d]]

\* block!: the statement let id = PROFILER.lock().unwrap().get_anchor_id(..)
mt_block(t, name, arm) ==
    /\ CanLock(t, "run")
    /\ created < MaxThreadCalls
    /\ Len(threads[t].blocks) < MaxDepth
    /\ arm = "bytes" => Adds(hist, Len(hist)) < MaxAdds
    /\ IF poisoned THEN UnwrapPanics(t, FALSE)
       ELSE
         /\ LET r == get_anchor_id(anchors, anchor_id_stack, name) IN
              /\ anchors' = r.anchors
              /\ anchor_id_stack' = r.stack
              /\ hist' = hist_grow(hist, Len(r.anchors))
              /\ threads' = [threads EXCEPT
                                ![t].pc = IF arm = "bytes"
                                          THEN "bytes" ELSE "new",
                                ![t].name = name,
                                ![t].id = r.id]
         /\ created' = created + 1
         /\ Wrote("get_anchor_id", Silent)
         /\ UNCHANGED <<start, now, blocks, poisoned, overflow_checks,
                        covered, ref, lock>>

\* block!(name, bytes): PROFILER.lock().unwrap() of the add_bytes statement
mt_bytes_lock(t) ==
    /\ CanLock(t, "bytes")
    /\ IF poisoned THEN UnwrapPanics(t, FALSE)
       ELSE
         /\ lock' = t
         /\ threads' = [threads EXCEPT ![t].pc = "locked"]
         /\ UNCHANGED <<anchors, anchor_id_stack, start, now, blocks,
                        poisoned, overflow_checks, report, op, report_before,
                        hist, covered, created, ref>>

\* $bytes is a plain expression: add_bytes runs and the guard is dropped
mt_add_bytes(t, bytes) ==
    /\ ~Aborted
    /\ lock = t
    /\ threads[t].pc = "locked"
    /\ anchors' = add_bytes(anchors, threads[t].id, bytes)
    /\ hist' = hist_bytes(hist, threads[t].id, bytes)
    /\ threads' = [threads EXCEPT ![t].pc = "new"]
    /\ lock' = 0
    /\ Wrote("add_bytes", Silent)
    /\ UNCHANGED <<anchor_id_stack, start, now, blocks, poisoned,
                   overflow_checks, covered, created, ref>>

\* $bytes calls an instrumented function: its block! calls PROFILER.lock()
\* while the thread still holds the guard of the add_bytes statement; the
\* call does not return (it deadlocks or panics)
mt_bytes_relock(t) ==
    /\ ~Aborted
    /\ lock = t
    /\ threads[t].pc = "locked"
    /\ threads' = [threads EXCEPT ![t].pc = "relock"]
    /\ UNCHANGED <<anchors, anchor_id_stack, start, now, blocks, poisoned,
                   overflow_checks, report, op, report_before, hist, covered,
                   created, ref, lock>>

\* the lock() of a thread that holds the guard panics: the guard is dropped
\* during the unwinding, which poisons the mutex
mt_relock_panic(t) ==
    /\ ~Aborted
    /\ lock = t
    /\ threads[t].pc = "relock"
    /\ threads' = [threads EXCEPT ![t] = Panicked(@, "relock", FALSE)]
    /\ poisoned' = TRUE
    /\ lock' = 0
    /\ UNCHANGED <<anchors, anchor_id_stack, start, now, blocks,
                   overflow_checks, report, op, report_before, hist, covered,
                   created, ref>>

\* block!: Block::new(id)
mt_block_new(t) ==
    /\ ~Aborted
    /\ threads[t].pc = "new"
    /\ threads' = [threads EXCEPT
                      ![t].blocks = Append(@, Block_new(threads[t].id,
                                                        threads[t].name)),
                      ![t].id = NONE,
                      ![t].pc = "run"]
    /\ UNCHANGED <<anchors, anchor_id_stack, start, now, blocks, poisoned,
                   overflow_checks, report, op, report_before, hist, covered,
                   created, ref, lock>>

\* Drop for Block, the innermost Block of the thread: add_block
mt_drop(t) ==
    /\ CanLock(t, "run")
    /\ threads[t].blocks # <<>>
    /\ IF poisoned THEN UnwrapPanics(t, TRUE)
       ELSE
         /\ LET open == threads[t].blocks
                b == open[Len(open)]
                r == add_block(anchors, anchor_id_stack, b)
            IN /\ anchors' = r.anchors
               /\ anchor_id_stack' = r.stack
               /\ hist' = hist_finalized(hist, b.anchor_id, Block_elapsed(b))
               /\ threads' = [threads EXCEPT
                                 ![t].blocks = SubSeq(open, 1, Len(open) - 1)]
         /\ Wrote("add_block", Silent)
         /\ UNCHANGED <<start, now, blocks, poisoned, overflow_checks,
                        covered, created, ref, lock>>

\* pprof::init
mt_init(t) ==
    /\ CanLock(t, "run")
    /\ IF poisoned THEN UnwrapPanics(t, FALSE)
       ELSE
         /\ start' = now
         /\ Wrote("init", Silent)
         /\ UNCHANGED <<anchors, anchor_id_stack, now, blocks, poisoned,
                        overflow_checks, hist, covered, created, ref, lock,
                        threads>>

\* pprof::print
mt_print(t) ==
    /\ CanLock(t, "run")
    /\ IF poisoned THEN UnwrapPanics(t, FALSE)
       ELSE
         /\ Wrote("print", [total_duration |-> now - start,
                            lines |-> print_lines(anchors, overflow_checks,
                                                  now - start)])
         /\ poisoned' = print_panics(anchors, overflow_checks)
         /\ threads' = IF print_panics(anchors, overflow_checks)
                       THEN [threads EXCEPT
                                ![t] = Panicked(@, "overflow", FALSE)]
                       ELSE threads
         /\ UNCHANGED <<anchors, anchor_id_stack, start, now, blocks,
                        overflow_checks, hist, covered, created, ref, lock>>

NextMT ==
    \/ Tick
    \/ \E t \in Threads, name \in Names, arm \in {"plain", "bytes"} :
          mt_block(t, name, arm)
    \/ \E t \in Threads : mt_bytes_lock(t)
    \/ \E t \in Threads, bytes \in 1..MaxBytes : mt_add_bytes(t, bytes)
    \/ \E t \in Threads : mt_bytes_relock(t)
    \/ \E t \in Threads : mt_relock_panic(t)
    \/ \E t \in Threads : mt_block_new(t)
    \/ \E t \in Threads : mt_drop(t)
    \/ \E t \in Threads : mt_init(t)
    \/ \E t \in Threads : mt_print(t)

SpecMT == Init /\ [][NextMT]_vars

TypeMT ==
    /\ lock \in {0} \cup Threads
    /\ now \in 0..MaxTime
    /\ Len(anchors) = Len(hist)
    /\ \A t \in Threads :
         threads[t].pc \in {"run", "locked", "bytes", "new", "relock",
                            "panicked", "aborted"}

\* ---- the claims ----
\* a step of the profiler operation o (the timer does not move during it)
IsStep(o) == op' = o /\ now' = now

AllClosed == blocks = <<>>

Exact(n) == [borrow |-> FALSE, mag |-> n]

RECURSIVE SumSelf(_, _)
SumSelf(anch, k) ==
    IF k = 0 THEN 0 ELSE SelfTicks(anch[k]).mag + SumSelf(anch, k - 1)

\* C1: once every scope is finalized, the self times the report computes
\* (elapsed - children_elapsed, none of them borrowing) sum to the time
\* covered by the top-level scopes.
C1_SelfTimePartitions ==
    AllClosed =>
        /\ \A i \in 1..Len(anchors) : ~SelfTicks(anchors[i]).borrow
        /\ SumSelf(anchors, Len(anchors)) = covered

\* C2: every anchor with calls > 0 reports self time <= total time,
\* also when its scope recursed into itself.
C2_SelfLeqTotal ==
    \A i \in 1..Len(anchors) :
        anchors[i].calls > 0 =>
            U64Leq(SelfTicks(anchors[i]), TotalTicks(anchors[i]))

\* C3: the total (inclusive) time of an anchor is the summed spans of those
\* of its finalized scopes that had no open scope of the same anchor around
\* them; nested re-entries add nothing to it.
C3_InclusiveIsOuterSpans ==
    \A i \in 1..Len(anchors) : TotalTicks(anchors[i]) = Exact(hist[i].outer)

\* C3 witness: an anchor re-entered itself, everything unwound, and the
\* nested spans were not empty.
C3_Witness ==
    /\ AllClosed
    /\ \E i \in 1..Len(anchors) :
         /\ hist[i].nested
         /\ hist[i].outer > 0
         /\ hist[i].span > hist[i].outer

\* C4: after an anchor recursed into itself and unwound, its self time is
\* the sum of the self-time slices of its scopes (each span minus the spans
\* of the scopes directly nested in it).
C4_ExclusiveUnderRecursion ==
    AllClosed =>
        \A i \in 1..Len(anchors) :
            hist[i].nested =>
                SelfTicks(anchors[i]) = Exact(hist[i].span - hist[i].kidspan)

\* anchors whose scopes all ran at nesting depth d
AtDepth(d) == {i \in 1..Len(anchors) : hist[i].depths = {d}}

RECURSIVE SumSpan(_)
SumSpan(S) ==
    IF S = {} THEN 0
    ELSE LET i == CHOOSE j \in S : TRUE IN hist[i].span + SumSpan(S \ {i})

\* the run so far nested scopes exactly two deep, one outer anchor around
\* inner scopes of other anchors
TwoLevel ==
    /\ AllClosed
    /\ Cardinality(AtDepth(1)) = 1
    /\ AtDepth(2) # {}
    /\ AtDepth(1) \cup AtDepth(2) = 1..Len(anchors)

\* C5: two-level nesting: inner has self = total = its summed spans, outer
\* has total = its span and self = its span minus the inner spans, and calls
\* counts the completed scopes of each.
C5_TwoLevelNesting ==
    TwoLevel =>
        /\ \A i \in AtDepth(2) :
             /\ SelfTicks(anchors[i]) = Exact(hist[i].span)
             /\ TotalTicks(anchors[i]) = Exact(hist[i].span)
             /\ anchors[i].calls = hist[i].done
        /\ \A o \in AtDepth(1) :
             /\ TotalTicks(anchors[o]) = Exact(hist[o].span)
             /\ SelfTicks(anchors[o]) =
                    Exact(hist[o].span - SumSpan(AtDepth(2)))
             /\ anchors[o].calls = hist[o].done

\* C5 witness: outer did work of its own around two inner scopes that took
\* time.
C5_Witness ==
    /\ TwoLevel
    /\ \E o \in AtDepth(1), i \in AtDepth(2) :
         /\ hist[i].done = 2
         /\ hist[i].span > 0
         /\ hist[o].span > hist[i].span

\* C6: calls of every anchor is the number of its scopes finalized so far,
\* and only the finalization of one of its scopes changes it, by exactly 1.
C6_CallsCountFinalized ==
    /\ [](\A i \in 1..Len(anchors) : anchors[i].calls = hist[i].done)
    /\ [][\A i \in 1..Len(anchors) :
            anchors'[i].calls =
                IF IsStep("drop") /\ blocks[Len(blocks)].anchor_id = i - 1
                THEN anchors[i].calls + 1 ELSE anchors[i].calls]_vars

\* C6 witness: an anchor with two finalized scopes, one nested in the other,
\* and bytes added.
C6_Witness ==
    \E i \in 1..Len(anchors) :
        /\ anchors[i].calls = 2
        /\ hist[i].nested
        /\ anchors[i].bytes > 0

\* C7: one anchor per name, an id keeps denoting the name it was handed out
\* for, and the registry is only appended to.
C7_LookupStable ==
    /\ [](/\ \A i, j \in 1..Len(anchors) :
               anchors[i].name = anchors[j].name => i = j
          /\ \A k \in 1..Len(blocks) :
               /\ blocks[k].anchor_id + 1 \in 1..Len(anchors)
               /\ anchors[blocks[k].anchor_id + 1].name = blocks[k].name)
    /\ [][/\ Len(anchors') >= Len(anchors)
          /\ \A i \in 1..Len(anchors) : anchors'[i].name = anchors[i].name
          /\ \A name \in Names :
               position(anchors, name) # NONE =>
                   position(anchors', name) = position(anchors, name)]_vars

\* C7 witness: a name looked up a second time while another name was
\* registered after it.
C7_Witness ==
    /\ Len(anchors) = 2
    /\ Len(blocks) = 3
    /\ blocks[1].name = blocks[3].name
    /\ blocks[1].name # blocks[2].name
    /\ blocks[1].anchor_id = blocks[3].anchor_id

\* C8 (as claimed): id 0 is a virtual root with an empty name that exists
\* from initialization, and no user-supplied name gets id 0.
C8_RootReserved ==
    /\ Len(anchors) >= 1
    /\ anchors[1].name = ""
    /\ \A k \in 1..Len(blocks) : blocks[k].anchor_id # 0

\* C8 (amended): there is no root anchor: the registry is empty until the
\* first lookup, id 0 belongs to the first user-supplied name, and a
\* top-level scope has nothing beneath it on the open-scope stack.
C8_NoRootAnchor ==
    /\ created = 0 => anchors = <<>>
    /\ anchors # <<>> => anchors[1].name \in Names
    /\ Len(anchors) = 1 =>
         \A k \in 1..Len(blocks) : blocks[k].anchor_id = 0
    /\ blocks # <<>> =>
         /\ Len(anchor_id_stack) = Len(blocks)
         /\ anchor_id_stack[1] = blocks[1].anchor_id

\* C8 witness: a top-level scope of the first registered name is open and
\* has id 0.
C8_Witness ==
    /\ Len(blocks) = 1
    /\ blocks[1].anchor_id = 0
    /\ anchor_id_stack = <<0>>
    /\ anchors[1].name = blocks[1].name

\* C9: print leaves the anchor table, the open-scope stack and the session
\* start unchanged.
C9_PrintReadOnly ==
    [][IsStep("print") =>
         UNCHANGED <<anchors, anchor_id_stack, start>>]_vars

\* C9 witness: print ran while a scope was open and another had completed.
C9_Witness ==
    /\ op = "print"
    /\ blocks # <<>>
    /\ \E i \in 1..Len(anchors) : anchors[i].calls > 0 /\ anchors[i].bytes > 0
    /\ start > 0

\* the anchors that have a completed scope
Called == {i \in 1..Len(anchors) : anchors[i].calls > 0}

\* C10 (as claimed): print writes a line for exactly the anchors with
\* calls > 0.
C10_LinesOnlyForCalled ==
    op = "print" =>
        /\ Len(report.lines) = Cardinality(Called)
        /\ \A k \in 1..Len(report.lines) : report.lines[k].calls > 0

\* C10 (amended): print writes a line for every registered anchor, in
\* registry order and whatever its calls; only a panic on a borrowing
\* subtraction (overflow checks on) cuts the report short, at that anchor.
C10_LinesForAllAnchors ==
    op = "print" =>
        /\ Len(report.lines) <= Len(anchors)
        /\ \A k \in 1..Len(report.lines) :
             /\ report.lines[k].name = anchors[k].name
             /\ report.lines[k].calls = anchors[k].calls
        /\ IF poisoned
           THEN /\ overflow_checks
                /\ Len(report.lines) < Len(anchors)
                /\ LET a == anchors[Len(report.lines) + 1] IN
                     a.children_elapsed > a.elapsed
           ELSE Len(report.lines) = Len(anchors)

\* C10 witness: print wrote a line for an anchor whose only scope is still
\* open, next to one for a completed anchor.
C10_Witness ==
    /\ op = "print"
    /\ ~poisoned
    /\ blocks # <<>>
    /\ \E k \in 1..Len(report.lines) : report.lines[k].calls = 0
    /\ \E k \in 1..Len(report.lines) : report.lines[k].calls > 0

\* the last two operations were both print
PrintedTwice == op = "print" /\ report_before # Silent

\* two quotients of print over a session time that is not zero have the
\* same value
PctSame(p, q) ==
    IF p.of.borrow \/ q.of.borrow
    THEN p = q
    ELSE p.of.mag * p.times * q.over = q.of.mag * q.times * p.over

\* C11 (as claimed): two prints with nothing in between write identical
\* durations and identical percentages for every anchor.
C11_PrintIdempotent ==
    (PrintedTwice /\ report_before.total_duration > 0) =>
        /\ Len(report.lines) = Len(report_before.lines)
        /\ \A k \in 1..Len(report.lines) :
             LET l == report.lines[k]
                 b == report_before.lines[k]
             IN /\ l.total = b.total
                /\ l.self = b.self
                /\ PctSame(l.total_pct, b.total_pct)
                /\ PctSame(l.self_pct, b.self_pct)

\* the session time a percentage of print was taken of
PctOver(total_duration) ==
    (get_duration_freq \div NanosPerMilli) * total_duration

\* C11 (amended): two prints with nothing in between write the same names,
\* calls, durations and bytes; each percentage is its duration over the
\* session time of its own call, so it changes when the clock has advanced.
C11_PrintDurationsIdempotent ==
    PrintedTwice =>
        /\ Len(report.lines) = Len(report_before.lines)
        /\ \A k \in 1..Len(report.lines) :
             LET l == report.lines[k]
                 b == report_before.lines[k]
             IN /\ l.name = b.name
                /\ l.calls = b.calls
                /\ l.total = b.total
                /\ l.self = b.self
                /\ l.bytes = b.bytes
                /\ l.total_pct.of = l.total /\ b.total_pct.of = b.total
                /\ l.self_pct.of = l.self /\ b.self_pct.of = b.self
                /\ l.total_pct.over = PctOver(report.total_duration)
                /\ l.self_pct.over = PctOver(report.total_duration)
                /\ b.total_pct.over = PctOver(report_before.total_duration)
                /\ b.self_pct.over = PctOver(report_before.total_duration)

\* C11 witness: print ran twice in a row, the clock advanced in between,
\* and an anchor had time to report.
C11_Witness ==
    /\ PrintedTwice
    /\ report.total_duration > report_before.total_duration
    /\ report_before.total_duration > 0
    /\ \E k \in 1..Len(report.lines) : report.lines[k].total.mag > 0

\* C12: init sets the session start to the current timer reading and leaves
\* the anchors and the open-scope stack as they are.
C12_InitResetsOnlyStart ==
    [][IsStep("init") =>
         /\ start' = now
         /\ UNCHANGED <<anchors, anchor_id_stack>>]_vars

\* C12 witness: init ran late in a session, with a scope open and
\* statistics and bytes accumulated.
C12_Witness ==
    /\ op = "init"
    /\ start > 0
    /\ blocks # <<>>
    /\ \E i \in 1..Len(anchors) : anchors[i].calls > 0 /\ anchors[i].bytes > 0

\* the quotient p of print equals n / d
PctIs(p, n, d) == ~p.of.borrow /\ p.of.mag * p.times * d = n * p.over

\* C15: the percentages of print are 100 * time / session time, both in
\* the same unit.
C15_PercentOfSession ==
    (op = "print" /\ report.total_duration > 0) =>
        \A k \in 1..Len(report.lines) :
            LET l == report.lines[k] IN
            (~l.total.borrow /\ ~l.self.borrow) =>
                /\ PctIs(l.total_pct, 100 * l.total.mag, report.total_duration)
                /\ PctIs(l.self_pct, 100 * l.self.mag, report.total_duration)

\* C16: the open-scope stack is the anchor ids of the open scopes, outermost
\* first, and empty when no scope is open.
C16_StackIsOpenScopes ==
    /\ Len(anchor_id_stack) = Len(blocks)
    /\ \A k \in 1..Len(blocks) : anchor_id_stack[k] = blocks[k].anchor_id

\* C16 witness: the innermost of three scopes was finalized, leaving two
\* scopes of different anchors open.
C16_Witness ==
    /\ op = "drop"
    /\ Len(blocks) = 2
    /\ blocks[1].anchor_id # blocks[2].anchor_id
    /\ anchor_id_stack = <<blocks[1].anchor_id, blocks[2].anchor_id>>

\* C20: in every state children_elapsed <= elapsed and
\* self_children_elapsed <= elapsed, so neither subtraction of print borrows.
C20_NoUnderflow ==
    \A i \in 1..Len(anchors) :
        /\ anchors[i].children_elapsed <= anchors[i].elapsed
        /\ anchors[i].self_children_elapsed <= anchors[i].elapsed
        /\ ~Underflows(anchors[i])

\* C13: the bytes of an anchor is the sum of everything added to it, and
\* adding bytes changes the bytes of that one anchor and nothing else: not
\* the open-scope stack, not a call count, not an elapsed counter.
C13_AddBytesOnlyBytes ==
    /\ [](\A i \in 1..Len(anchors) : anchors[i].bytes = hist[i].bytes_added)
    /\ [][(IsStep("add_bytes") /\ ~poisoned') =>
            /\ UNCHANGED <<anchor_id_stack, start>>
            /\ \E i \in 1..Len(anchors), n \in 1..MaxBytes :
                 anchors' = [anchors EXCEPT ![i].bytes = @ + n]]_vars
    /\ [][IsStep("block_bytes") =>
            \A i \in 1..Len(anchors) :
                \E n \in 0..MaxBytes :
                    anchors'[i] = [anchors[i] EXCEPT !.bytes = @ + n]]_vars

\* C13 witness: bytes were added twice to an anchor with a completed scope,
\* the second time directly while a scope was open.
C13_Witness ==
    /\ op = "add_bytes"
    /\ ~poisoned
    /\ blocks # <<>>
    /\ \E i \in 1..Len(anchors) :
         /\ anchors[i].bytes = 2
         /\ hist[i].adds = 2
         /\ anchors[i].calls > 0

\* the anchor of the design's run that has the name of anchors[i]
RefOf(i) == ref.anchors[position(ref.anchors, anchors[i].name) + 1]

C17_SameCalls ==
    \A i \in 1..Len(anchors) : anchors[i].calls = RefOf(i).calls

C17_SameInclusive ==
    \A i \in 1..Len(anchors) :
        TotalTicks(anchors[i]) = Exact(RefOf(i).elapsed_inclusive)

C17_SameExclusive ==
    \A i \in 1..Len(anchors) :
        SelfTicks(anchors[i]) = Exact(RefOf(i).elapsed_exclusive)

\* C17: run side by side on the same scopes and timer readings, add_block's
\* stack walk and the design's algorithm end with the same calls, the same
\* inclusive time and the same exclusive time for every anchor.
C17_SameAsDesign ==
    AllClosed => (C17_SameCalls /\ C17_SameInclusive /\ C17_SameExclusive)

\* C14: once the mutex is poisoned, every later profiler call completes as
\* a no-op or a reset: none of them panics into the program because of the
\* poison.
C14_PoisonedCallsNoPanic ==
    \A t \in Threads : threads[t].cause # "poisoned"

\* scopes thread t has registered and not finalized: its live Blocks and
\* the id it has looked up for the Block it is about to create
OpenScopes(t) ==
    Len(threads[t].blocks) + (IF threads[t].id # NONE THEN 1 ELSE 0)

RECURSIVE SumOpen(_)
SumOpen(T) ==
    IF T = {} THEN 0
    ELSE LET t == CHOOSE u \in T : TRUE IN OpenScopes(t) + SumOpen(T \ {t})

\* C18: under every interleaving of the threads, calls of an anchor is the
\* number of its finalized scopes, elapsed the sum of their durations, and
\* the open-scope stack is as long as the number of scopes registered and
\* not finalized.
C18_FlatStatistics ==
    /\ \A i \in 1..Len(anchors) :
         /\ anchors[i].calls = hist[i].done
         /\ anchors[i].elapsed = hist[i].span
    /\ Len(anchor_id_stack) = SumOpen(Threads)

\* C18 witness: two threads had a scope of the same anchor open at once,
\* one finalized it after some time, and the other thread's scope is still
\* open.
C18_Witness ==
    /\ Len(anchors) = 1
    /\ anchors[1].calls = 1
    /\ anchors[1].elapsed > 0
    /\ anchor_id_stack = <<0>>
    /\ \E t \in Threads :
         /\ Len(threads[t].blocks) = 1
         /\ threads[t].blocks[1].start = 0
         /\ threads[t].pc = "run"

\* C19: the guard is never held while caller code runs, the evaluation of
\* the arguments of block! included, so no thread calls lock() while it
\* holds the guard.
C19_NoLockUnderGuard ==
    \A t \in Threads : ~(lock = t /\ threads[t].pc = "relock")
====
